---- MODULE Spec2Model ----
(***************************************************************************)
(* Model of inference_core/src/embed.rs: the Semantic engine               *)
(* (model bytes + tokenizer + ONNX session), its construction by           *)
(* Semantic::initialize, the embedding pipeline Semantic::embed, and the   *)
(* release of the engine when the pinned handle is dropped.                *)
(***************************************************************************)
EXTENDS Integers, Sequences, FiniteSets, TLC

\* ------------------------------------------------------------------ bounds
\* Longest text handed to embed (in characters).
MaxTextLen == 2
\* Number of embed calls issued over the engine's lifetime.
MaxCalls == 3

\* Hidden dimension of the graphs loaded.
Hidden == 2

\* Callers sharing one &Semantic.
Threads == {"t1", "t2"}

None == [kind |-> "none"]

VARIABLES
    phase,       \* position in the engine's life: "new", the steps of initialize,
                 \* "ready", the steps of the drop, "dropped", or "failed"
    args,        \* the arguments initialize was called with: model, tokenizer_data
    frame,       \* locals of initialize: threads, tokenizer, data_ref
    initResult,  \* what initialize gave its caller: None, Ok, Err or Panic
    modelBuf,    \* heap buffer of the model Vec<u8>: "unallocated", "live", "freed"
    model,       \* Semantic.model
    tokenizer,   \* Semantic.tokenizer
    session,     \* Semantic.session
    alive,       \* the process has not been aborted by a panic
    pc,          \* per caller: "idle", the next step of its embed call, or "panicked"
    local,       \* per caller: the text of its call and the latest intermediate value
    seen,        \* per text: the results embed calls with it have ended in
    done,        \* per text: number of embed calls with it that have ended
    ncalls       \* embed calls begun

\* ------------------------------------------------ f32 (binary32) arithmetic
\* Embedding = Vec<f32>: 24 significant bits, round to nearest, ties to even.
\* A finite f32 is [m, e] with value m * 2^e, normalised so that m = 0 (and
\* e = 0) or 2^23 <= |m| < 2^24; equal values have equal records.
MantBits == 24

RECURSIVE Pow2Rec(_)
Pow2Rec(n) == IF n <= 0 THEN 1 ELSE 2 * Pow2Rec(n - 1)

\* 2^n for the exponents a 32-bit integer can hold, tabulated.
Pow2Table == [n \in 0..30 |-> Pow2Rec(n)]
Pow2(n) == IF n <= 0 THEN 1 ELSE Pow2Table[n]

Abs(n) == IF n < 0 THEN -n ELSE n
Sgn(n) == IF n < 0 THEN -1 ELSE 1

F32Zero == [m |-> 0, e |-> 0]

\* Smallest s >= 0 with a < 2^(MantBits + s).
RECURSIVE ShiftDown(_, _)
ShiftDown(a, s) == IF a < Pow2(MantBits + s) THEN s ELSE ShiftDown(a, s + 1)

\* Smallest s >= 0 with a * 2^s >= 2^(MantBits - 1), for a > 0.
RECURSIVE ShiftUp(_, _)
ShiftUp(a, s) == IF a * Pow2(s) >= Pow2(MantBits - 1) THEN s ELSE ShiftUp(a, s + 1)

\* The integer nearest to num / den (num >= 0, den > 0), ties to even.
RoundHalfEven(num, den) ==
    LET q == num \div den
        r == num % den
    IN  IF 2 * r > den \/ (2 * r = den /\ q % 2 = 1) THEN q + 1 ELSE q

\* The f32 nearest to the exact value n * 2^e.
F32Of(n, e) ==
    IF n = 0 THEN F32Zero
    ELSE LET a == Abs(n)
             s == ShiftDown(a, 0)
         IN  IF s > 0
             THEN LET q == RoundHalfEven(a, Pow2(s))
                  IN  IF q = Pow2(MantBits)
                      THEN [m |-> Sgn(n) * Pow2(MantBits - 1), e |-> e + s + 1]
                      ELSE [m |-> Sgn(n) * q, e |-> e + s]
             ELSE LET u == ShiftUp(a, 0)
                  IN  [m |-> Sgn(n) * a * Pow2(u), e |-> e - u]

\* a / 2^d truncated, with the lowest bit set when anything was cut off
\* (round to odd), so that a later rounding to nearest sees where the exact
\* value lies.
ShiftSticky(a, d) ==
    IF d <= 0 THEN a
    ELSE IF d > MantBits THEN 1
    ELSE LET q == a \div Pow2(d)
         IN  IF a % Pow2(d) # 0 /\ q % 2 = 0 THEN q + 1 ELSE q

\* x + y in f32: the exact sum, rounded once. The operand of the smaller
\* exponent is aligned to three bits below the other's last place.
F32Add(x, y) ==
    IF x.m = 0 THEN y
    ELSE IF y.m = 0 THEN x
    ELSE LET hi == IF x.e >= y.e THEN x ELSE y
             lo == IF x.e >= y.e THEN y ELSE x
             d  == hi.e - lo.e
         IN  IF d <= 3
             THEN F32Of(hi.m * Pow2(d) + lo.m, lo.e)
             ELSE F32Of(hi.m * 8 + Sgn(lo.m) * ShiftSticky(Abs(lo.m), d - 3), hi.e - 3)

\* Smallest k >= 0 with a * 2^k / n >= 2^(MantBits - 1), for a > 0.
RECURSIVE DivShift(_, _, _)
DivShift(a, n, k) ==
    IF a * Pow2(k) >= n * Pow2(MantBits - 1) THEN k ELSE DivShift(a, n, k + 1)

\* x / n in f32 for an axis length n >= 1 (A::from_usize(n) is exact for the
\* lengths used here): the exact quotient, rounded once.
F32DivUsize(x, n) ==
    IF x.m = 0 THEN F32Zero
    ELSE LET a == Abs(x.m)
             k == DivShift(a, n, 0)
             q == RoundHalfEven(a * Pow2(k), n)
         IN  IF q = Pow2(MantBits)
             THEN [m |-> Sgn(x.m) * Pow2(MantBits - 1), e |-> x.e - k + 1]
             ELSE [m |-> Sgn(x.m) * q, e |-> x.e - k]

\* ------------------------------------------------------------------ tensors
\* An n-dimensional array in standard (row-major) layout.
Tensor(dt, sh, d) == [dtype |-> dt, shape |-> sh, data |-> d]

RECURSIVE Prod(_, _, _)
\* shape[lo] * ... * shape[hi]; 1 for an empty range.
Prod(sh, lo, hi) == IF lo > hi THEN 1 ELSE sh[lo] * Prod(sh, lo + 1, hi)

\* ndarray::Array::from_shape_vec((1, length), v): Err unless the vector holds
\* exactly 1 * length elements.
FromShapeVec(length, v) ==
    IF Len(v) = length
    THEN [kind |-> "ok", val |-> Tensor("i64", <<1, length>>, v)]
    ELSE [kind |-> "err", err |-> "Shape"]

\* The shape with (0-based) axis ax removed.
RemoveAxis(sh, ax) ==
    [i \in 1..(Len(sh) - 1) |-> IF i <= ax THEN sh[i] ELSE sh[i + 1]]

RECURSIVE SumLane(_, _, _, _, _)
\* Sum of a.len_of(axis) elements data[base + k*stride], k = 0.., accumulated
\* left to right from zero, each partial sum rounded to f32.
SumLane(data, base, stride, n, acc) ==
    IF n = 0 THEN acc
    ELSE SumLane(data, base + stride, stride, n - 1, F32Add(acc, data[base]))

\* Fault: sum_axis in place of mean_axis, the sum left undivided.
SumAxisOnly(t, ax) ==
    IF ax + 1 > Len(t.shape) THEN [kind |-> "panic"]
    ELSE IF t.shape[ax + 1] = 0 THEN [kind |-> "none"]
    ELSE LET n     == t.shape[ax + 1]
             outer == Prod(t.shape, 1, ax)
             inner == Prod(t.shape, ax + 2, Len(t.shape))
         IN  [kind |-> "some",
              val  |-> Tensor("f32", RemoveAxis(t.shape, ax),
                         [i \in 1..(outer * inner) |->
                            SumLane(t.data, ((i - 1) \div inner) * n * inner
                                              + ((i - 1) % inner) + 1,
                                    inner, n, F32Zero)])]

\* ArrayBase::mean_axis(Axis(ax)) on an f32 array of dynamic rank: an
\* out-of-range axis panics; an axis of length 0 gives None; otherwise the sum
\* along the axis divided by the axis length.
MeanAxis(t, ax) ==
    IF ax + 1 > Len(t.shape) THEN [kind |-> "panic"]
    ELSE IF t.shape[ax + 1] = 0 THEN [kind |-> "none"]
    ELSE LET n     == t.shape[ax + 1]
             outer == Prod(t.shape, 1, ax)
             inner == Prod(t.shape, ax + 2, Len(t.shape))
         IN  [kind |-> "some",
              val  |-> Tensor("f32", RemoveAxis(t.shape, ax),
                         [i \in 1..(outer * inner) |->
                            LET o == (i - 1) \div inner
                                k == (i - 1) % inner
                            IN  F32DivUsize(
                                  SumLane(t.data, o * n * inner + k + 1, inner, n, F32Zero),
                                  n)])]

\* -------------------------------------------------------------- tokenizer
RECURSIVE Repeat(_, _)
Repeat(x, n) == IF n <= 0 THEN <<>> ELSE <<x>> \o Repeat(x, n - 1)

\* The texts handed to embed: runs of "a" up to MaxTextLen, and "?", which
\* stands for input a strict tokenizer rejects.
Texts == {Repeat("a", n) : n \in 0..MaxTextLen} \cup {<<"?">>}

\* Vocabulary ids: 0 [PAD], 1 [CLS], 2 [SEP], 3 "a", 4 [UNK].
TokenId(c) == IF c = "a" THEN 3 ELSE 4

\* What valid tokenizer bytes can describe: whether special boundary tokens
\* are added, a fixed padding length (0: no padding), and whether encode
\* rejects unsupported input.
TokenizerConfigs ==
    { [special |-> TRUE,  padTo |-> 0, strict |-> TRUE],
      [special |-> FALSE, padTo |-> 0, strict |-> FALSE],
      [special |-> TRUE,  padTo |-> MaxTextLen + 2, strict |-> FALSE] }

TokenizerBytes ==
    {[kind |-> "malformed"]} \cup {[kind |-> "tokenizer", cfg |-> c] : c \in TokenizerConfigs}

\* Fault: malformed bytes fall back to a default tokenizer instead of Err.
TokenizerFromBytesLenient(bytes) ==
    [kind |-> "ok",
     val  |-> IF bytes.kind = "tokenizer" THEN bytes.cfg
              ELSE [special |-> TRUE, padTo |-> 0, strict |-> TRUE]]

\* tokenizers::Tokenizer::from_bytes
TokenizerFromBytes(bytes) ==
    IF bytes.kind = "tokenizer"
    THEN [kind |-> "ok", val |-> bytes.cfg]
    ELSE [kind |-> "err", err |-> "TokenizerLoad"]

\* Tokenizer::encode(sequence, true): ids, attention mask and type ids of one
\* length, or Err.
Encode(tok, text) ==
    IF tok.strict /\ \E i \in 1..Len(text) : text[i] = "?"
    THEN [kind |-> "err", err |-> "Tokenize"]
    ELSE LET body == [i \in 1..Len(text) |-> TokenId(text[i])]
             real == IF tok.special THEN <<1>> \o body \o <<2>> ELSE body
             pad  == IF tok.padTo > Len(real) THEN tok.padTo - Len(real) ELSE 0
         IN  [kind |-> "ok",
              val  |-> [ids            |-> real \o Repeat(0, pad),
                        attention_mask |-> Repeat(1, Len(real)) \o Repeat(0, pad),
                        type_ids       |-> Repeat(0, Len(real) + pad)]]

\* ------------------------------------------------------- computation graph
\* Per-token output vector of the "embed" graph: a function of the token id
\* and of its attention-mask bit.
TokenVectors ==
    [id \in 0..4 |-> [mask \in {0, 1} |->
        [j \in 1..Hidden |->
            IF mask = 0 THEN F32Of(j, 0)
            ELSE IF j = 1 THEN F32Of(Pow2(MantBits) - id, 0)
            ELSE F32Of(id + j, 0 - j)]]]

TokenVector(id, mask) == TokenVectors[id][mask]

\* The vector the "const" graph emits at every position: 2^24 - 2, then 1.5.
ConstVector == [j \in 1..Hidden |-> IF j = 1 THEN F32Of(Pow2(MantBits) - 2, 0) ELSE F32Of(3, 0 - 1)]

RECURSIVE Flatten(_)
Flatten(rows) == IF rows = <<>> THEN <<>> ELSE Head(rows) \o Flatten(Tail(rows))

\* What valid model bytes can describe, by the first output of the graph:
\*   const   f32 (1, L, H), the same vector at every position
\*   embed   f32 (1, L, H), one vector per token, looked up in a table of
\*           `vocab` rows
\*   pooler  f32 (1, H), already reduced to one vector
\*   flat    f32 (H)
\*   ids     i64 (1, L, H)
Graphs ==
    { [kind |-> "const",  vocab |-> 0],
      [kind |-> "embed",  vocab |-> 4],
      [kind |-> "pooler", vocab |-> 0],
      [kind |-> "flat",   vocab |-> 0],
      [kind |-> "ids",    vocab |-> 0] }

ModelBytes == {[kind |-> "malformed"]} \cup {[kind |-> "onnx", graph |-> g] : g \in Graphs}

\* SessionBuilder::with_model_from_memory(data_ref): the session keeps the
\* borrowed slice it was built from.
WithModelFromMemory(bytes, threads) ==
    IF bytes.kind = "onnx"
    THEN [kind |-> "ok",
          val  |-> [graph |-> bytes.graph, intra_threads |-> threads, data_ref |-> "model"]]
    ELSE [kind |-> "err", err |-> "ModelLoad"]

\* Session::run([ids, attention_mask, token_type_ids]): the outputs of the
\* graph, or Err on a runtime fault (here: a token id outside the table the
\* graph looks it up in).
SessionRun(sess, inputs) ==
    LET g    == sess.graph
        ids  == inputs[1].data
        mask == inputs[2].data
        L    == inputs[1].shape[2]
    IN  IF g.kind = "embed" /\ \E i \in 1..L : ids[i] >= g.vocab
        THEN [kind |-> "err", err |-> "Inference"]
        ELSE [kind |-> "ok", val |-> <<
          CASE g.kind = "const"  -> Tensor("f32", <<1, L, Hidden>>,
                                       Flatten([i \in 1..L |-> ConstVector]))
            [] g.kind = "embed"  -> Tensor("f32", <<1, L, Hidden>>,
                                       Flatten([i \in 1..L |-> TokenVector(ids[i], mask[i])]))
            [] g.kind = "pooler" -> Tensor("f32", <<1, Hidden>>, ConstVector)
            [] g.kind = "flat"   -> Tensor("f32", <<Hidden>>, ConstVector)
            [] g.kind = "ids"    -> Tensor("i64", <<1, L, Hidden>>,
                                       Flatten([i \in 1..L |-> [j \in 1..Hidden |-> ids[i]]]))
          >>]

\* ------------------------------------------------- the steps of embed
Ok(v)     == [kind |-> "ok", val |-> v]
Err(e)    == [kind |-> "err", err |-> e]
Panic(at) == [kind |-> "panic", at |-> at]

\* line 57: self.tokenizer.encode(sequence, true).unwrap()
EncodeStep(tok, text) ==
    LET r == Encode(tok, text)
    IN  IF r.kind = "ok" THEN r ELSE Panic("encode")

\* lines 59-77: the three (1, length) i64 arrays, each from_shape_vec(..)?
ArraysStep(enc) ==
    LET length == Len(enc.ids)
        a == FromShapeVec(length, enc.ids)
        b == FromShapeVec(length, enc.attention_mask)
        c == FromShapeVec(length, enc.type_ids)
    IN  IF a.kind = "err" THEN a
        ELSE IF b.kind = "err" THEN b
        ELSE IF c.kind = "err" THEN c
        ELSE Ok(<<a.val, b.val, c.val>>)

\* Fault: the session is left bound to the inputs of the first call that
\* ended, and refuses every run after it.
RunStepStateful(sess, arrays) ==
    IF \E x \in Texts : done[x] > 0 THEN Err("Inference") ELSE SessionRun(sess, arrays)

\* lines 79-83: self.session.run([..])?
RunStep(sess, arrays) == SessionRun(sess, arrays)

\* line 85: outputs[0].try_extract::<f32>().unwrap(); the array is of dynamic
\* rank, so only the element type is checked.
ExtractStep(outputs) ==
    IF outputs[1].dtype = "f32" THEN Ok(outputs[1]) ELSE Panic("try_extract")

\* Fault: the mean is taken along the hidden axis instead of the sequence axis.
PoolStepAxis2(tensor) ==
    LET r == MeanAxis(tensor, 2)
    IN  IF r.kind = "some" THEN Ok(r.val) ELSE Panic("mean_axis")

\* lines 86-87: sequence_embedding.mean_axis(Axis(1)).unwrap()
PoolStep(tensor) ==
    LET r == MeanAxis(tensor, 1)
    IN  IF r.kind = "some" THEN Ok(r.val) ELSE Panic("mean_axis")

\* line 89: Ok(pooled.to_owned().as_slice().unwrap().to_vec()); an owned array
\* is in standard layout, so as_slice is Some.
ReturnStep(pooled) == Ok(pooled.data)

\* ------------------------------------------------------------------- state
vars == <<phase, args, frame, initResult, modelBuf, model, tokenizer, session, alive,
          pc, local, seen, done, ncalls>>

engine  == <<model, tokenizer, session>>
callers == <<pc, local, seen, done, ncalls>>

NoLocal == [text |-> <<>>, val |-> None]

Init ==
    /\ phase = "new"
    /\ args = None
    /\ frame = None
    /\ initResult = None
    /\ modelBuf = "unallocated"
    /\ model = None
    /\ tokenizer = None
    /\ session = None
    /\ alive = TRUE
    /\ pc = [t \in Threads |-> "idle"]
    /\ local = [t \in Threads |-> NoLocal]
    /\ seen = [x \in Texts |-> {}]
    /\ done = [x \in Texts |-> 0]
    /\ ncalls = 0

\* -------------------------------------------------------------- initialize
\* What NUM_OMP_THREADS can hold: unset, not a number, or a number.
ThreadsEnv == {"unset", "many", "2"}

\* lines 31-35: str::parse(&v).unwrap_or(1), 1 when the variable is unset.
ParseThreads(v) == IF v = "2" THEN 2 ELSE 1

\* A panic unwinds the panicking thread (panic = "unwind") or ends the
\* process (panic = "abort"), as the build profile decides.
PanicOutcomes == {TRUE, FALSE}

\* initialize returns Err(e) or panics: its locals and arguments are released.
InitFails(result) ==
    /\ UNCHANGED args
    /\ initResult' = result
    /\ phase' = "failed"
    /\ modelBuf' = "freed"
    /\ frame' = None

\* line 22: initialize(model, tokenizer_data) is entered.
InitCall(bytes, tokbytes) ==
    /\ alive /\ phase = "new"
    /\ phase' = "environment"
    /\ args' = [model |-> bytes, tokenizer_data |-> tokbytes]
    /\ frame' = [threads |-> 1, tokenizer |-> None, data_ref |-> None]
    /\ modelBuf' = "live"
    /\ UNCHANGED <<initResult, engine, alive, callers>>

\* lines 23-29: Environment::builder()..build()?
InitEnvironment(ok) ==
    /\ alive /\ phase = "environment"
    /\ IF ok
       THEN phase' = "threads" /\ UNCHANGED <<args, frame, initResult, modelBuf>>
       ELSE InitFails(Err("Environment"))
    /\ UNCHANGED <<engine, alive, callers>>

\* lines 31-35
InitThreads(v) ==
    /\ alive /\ phase = "threads"
    /\ phase' = "tokenizer"
    /\ frame' = [frame EXCEPT !.threads = ParseThreads(v)]
    /\ UNCHANGED <<args, initResult, modelBuf, engine, alive, callers>>

\* line 37: Tokenizer::from_bytes(tokenizer_data).map_err(..)?
InitTokenizer ==
    /\ alive /\ phase = "tokenizer"
    /\ LET r == TokenizerFromBytes(args.tokenizer_data)
       IN  IF r.kind = "ok"
           THEN /\ phase' = "data_ref"
                /\ frame' = [frame EXCEPT !.tokenizer = r.val]
                /\ UNCHANGED <<args, initResult, modelBuf>>
           ELSE InitFails(r)
    /\ UNCHANGED <<engine, alive, callers>>

\* line 39: data_ref borrows the model buffer for 'static.
InitDataRef ==
    /\ alive /\ phase = "data_ref"
    /\ phase' = "session"
    /\ frame' = [frame EXCEPT !.data_ref = "model"]
    /\ UNCHANGED <<args, initResult, modelBuf, engine, alive, callers>>

\* lines 41-51: the struct literal. model is moved in (its buffer stays where
\* it is), the builder is configured with `?` (optimization level, thread
\* count), and the session is built from data_ref and unwrapped.
InitSemantic(builderOk, outcome) ==
    /\ alive /\ phase = "session"
    /\ LET r == WithModelFromMemory(args.model, frame.threads)
       IN  IF ~builderOk
           THEN InitFails(Err("ModelLoad")) /\ UNCHANGED <<engine, alive>>
           ELSE IF r.kind = "ok"
           THEN /\ model' = args.model
                /\ tokenizer' = frame.tokenizer
                /\ session' = r.val
                /\ phase' = "pin"
                /\ frame' = None
                /\ UNCHANGED <<args, initResult, modelBuf, alive>>
           ELSE /\ InitFails(Panic("with_model_from_memory"))
                /\ alive' = outcome
                /\ UNCHANGED engine
    /\ UNCHANGED callers

\* line 53: Ok(Box::pin(semantic))
InitPin ==
    /\ alive /\ phase = "pin"
    /\ phase' = "ready"
    /\ initResult' = Ok("Semantic")
    /\ UNCHANGED <<args, frame, modelBuf, engine, alive, callers>>

\* -------------------------------------------------------------------- embed
\* Fault: intermediates kept in one slot of the engine rather than in the
\* call's own frame, so a caller reads what another caller at the same step
\* has put there.
ValueInSharedSlot(t) ==
    LET others == {u \in Threads : u # t /\ pc[u] = pc[t]}
    IN  IF others = {} THEN local[t].val ELSE local[CHOOSE u \in others : TRUE].val

\* The value a caller's current step works on: a local of its own call.
Value(t) == local[t].val

\* The call of caller t ends with `out`, returned to it.
Returns(t, out) ==
    /\ pc' = [pc EXCEPT ![t] = "idle"]
    /\ local' = [local EXCEPT ![t] = NoLocal]
    /\ seen' = [seen EXCEPT ![local[t].text] = @ \cup {out}]
    /\ done' = [done EXCEPT ![local[t].text] = @ + 1]
    /\ UNCHANGED alive

\* The call of caller t panics.
Panics(t, out, outcome) ==
    /\ pc' = [pc EXCEPT ![t] = "panicked"]
    /\ local' = [local EXCEPT ![t] = NoLocal]
    /\ seen' = [seen EXCEPT ![local[t].text] = @ \cup {out}]
    /\ done' = [done EXCEPT ![local[t].text] = @ + 1]
    /\ alive' = outcome

\* The call of caller t moves on to step `next` with value v.
Proceeds(t, next, v) ==
    /\ pc' = [pc EXCEPT ![t] = next]
    /\ local' = [local EXCEPT ![t].val = v]
    /\ UNCHANGED <<seen, done, alive>>

\* One step of embed ended in r: go on, return the error, or panic.
Continue(t, r, next, outcome) ==
    CASE r.kind = "ok"    -> Proceeds(t, next, r.val)
      [] r.kind = "err"   -> Returns(t, r)
      [] r.kind = "panic" -> Panics(t, r, outcome)

\* line 56: embed(&self, sequence) is entered.
EmbedCall(t, text) ==
    /\ alive /\ phase = "ready" /\ pc[t] = "idle" /\ ncalls < MaxCalls
    /\ pc' = [pc EXCEPT ![t] = "tokenize"]
    /\ local' = [local EXCEPT ![t] = [text |-> text, val |-> None]]
    /\ ncalls' = ncalls + 1
    /\ UNCHANGED <<phase, args, frame, initResult, modelBuf, engine, alive, seen, done>>

\* lines 57-77: tokenize, then build the three input arrays.
TokenizeStep(tok, text) ==
    LET e == EncodeStep(tok, text)
    IN  IF e.kind = "ok" THEN ArraysStep(e.val) ELSE e

EmbedTokenize(t, outcome) ==
    /\ alive /\ pc[t] = "tokenize"
    /\ Continue(t, TokenizeStep(tokenizer, local[t].text), "run", outcome)
    /\ UNCHANGED <<phase, args, frame, initResult, modelBuf, engine, ncalls>>

\* lines 79-83
EmbedRun(t, outcome) ==
    /\ alive /\ pc[t] = "run"
    /\ Continue(t, RunStep(session, Value(t)), "extract", outcome)
    /\ UNCHANGED <<phase, args, frame, initResult, modelBuf, engine, ncalls>>

\* line 85
EmbedExtract(t, outcome) ==
    /\ alive /\ pc[t] = "extract"
    /\ Continue(t, ExtractStep(Value(t)), "pool", outcome)
    /\ UNCHANGED <<phase, args, frame, initResult, modelBuf, engine, ncalls>>

\* lines 86-89: pool, then return the pooled values.
PoolAndReturn(tensor) ==
    LET p == PoolStep(tensor)
    IN  IF p.kind = "ok" THEN ReturnStep(p.val) ELSE p

EmbedPool(t, outcome) ==
    /\ alive /\ pc[t] = "pool"
    /\ LET r == PoolAndReturn(Value(t))
       IN  IF r.kind = "ok" THEN Returns(t, r) ELSE Panics(t, r, outcome)
    /\ UNCHANGED <<phase, args, frame, initResult, modelBuf, engine, ncalls>>

\* --------------------------------------------------------------------- drop
\* The Pin<Box<Semantic>> is dropped: no caller borrows it any more, and the
\* fields are released in the order the struct declares them (lines 13-16).
NoBorrow == \A t \in Threads : pc[t] \in {"idle", "panicked"}

\* line 13: model
DropModel ==
    /\ alive /\ phase = "ready" /\ NoBorrow
    /\ phase' = "drop_tokenizer"
    /\ model' = None
    /\ modelBuf' = "freed"
    /\ UNCHANGED <<args, frame, initResult, tokenizer, session, alive, callers>>

\* line 15: tokenizer
DropTokenizer ==
    /\ alive /\ phase = "drop_tokenizer"
    /\ phase' = "drop_session"
    /\ tokenizer' = None
    /\ UNCHANGED <<args, frame, initResult, modelBuf, model, session, alive, callers>>

\* line 16: session
DropSession ==
    /\ alive /\ phase = "drop_session"
    /\ phase' = "dropped"
    /\ session' = None
    /\ UNCHANGED <<args, frame, initResult, modelBuf, model, tokenizer, alive, callers>>

\* --------------------------------------------------------------------- spec
Next ==
    \/ \E b \in ModelBytes, tb \in TokenizerBytes : InitCall(b, tb)
    \/ \E ok \in BOOLEAN : InitEnvironment(ok)
    \/ \E v \in ThreadsEnv : InitThreads(v)
    \/ InitTokenizer
    \/ InitDataRef
    \/ \E ok \in BOOLEAN, o \in PanicOutcomes : InitSemantic(ok, o)
    \/ InitPin
    \/ \E t \in Threads, x \in Texts : EmbedCall(t, x)
    \/ \E t \in Threads, o \in PanicOutcomes : EmbedTokenize(t, o)
    \/ \E t \in Threads, o \in PanicOutcomes : EmbedRun(t, o)
    \/ \E t \in Threads, o \in PanicOutcomes : EmbedExtract(t, o)
    \/ \E t \in Threads, o \in PanicOutcomes : EmbedPool(t, o)
    \/ DropModel
    \/ DropTokenizer
    \/ DropSession

Spec == Init /\ [][Next]_vars

\* ------------------------------------------------------------- properties
\* embed run start to finish by one caller.
EmbedSequential(tok, sess, text) ==
    LET a == TokenizeStep(tok, text) IN
    IF a.kind # "ok" THEN a ELSE
    LET o == RunStep(sess, a.val) IN
    IF o.kind # "ok" THEN o ELSE
    LET x == ExtractStep(o.val) IN
    IF x.kind # "ok" THEN x ELSE PoolAndReturn(x.val)

\* The sessions a ready engine can hold.
Sessions ==
    {WithModelFromMemory(b, ParseThreads(v)).val :
        b \in {m \in ModelBytes : m.kind = "onnx"}, v \in ThreadsEnv}

\* EmbedSequential, tabulated over the engines and texts of the model.
SequentialResult ==
    [c \in TokenizerConfigs |-> [s \in Sessions |-> [x \in Texts |->
        EmbedSequential(c, s, x)]]]

\* The outputs of the forward pass for text x, as Ok(outputs), or the Err or
\* Panic of the step that stopped before it; tabulated like SequentialResult.
ForwardResult ==
    [c \in TokenizerConfigs |-> [s \in Sessions |-> [x \in Texts |->
        LET a == TokenizeStep(c, x)
        IN  IF a.kind # "ok" THEN a ELSE RunStep(s, a.val)]]]

ForwardOf(x) == ForwardResult[tokenizer][session][x]

Ready == phase = "ready"

\* initialize has returned or panicked without handing out an engine.
InitFailed == phase = "failed"

\* The graph's first output has the expected form: f32 of shape (1, L, H).
Conforming == session # None /\ session.graph.kind \in {"const", "embed"}

InFlight(t) == pc[t] \notin {"idle", "panicked"}

OkResults(x) == {r \in seen[x] : r.kind = "ok"}

\* C1: initialize with malformed model bytes and valid tokenizer bytes (the
\* execution environment having been built) returns the ModelLoad error to
\* its caller; it does not panic.
C1_ModelLoadError ==
    (/\ InitFailed
     /\ args.model.kind = "malformed"
     /\ args.tokenizer_data.kind = "tokenizer"
     /\ initResult # Err("Environment"))
    => initResult = Err("ModelLoad")

\* C2: an embed call whose text the tokenizer fails to encode returns the
\* Tokenize error to its caller.
C2_TokenizeError ==
    Ready =>
      \A x \in Texts :
        (done[x] > 0 /\ Encode(tokenizer, x).kind = "err") => seen[x] = {Err("Tokenize")}

\* The tensor cannot be taken as an f32 array of rank 3 and pooled along axis 1.
BadOutput(t) ==
    \/ t.dtype # "f32"
    \/ Len(t.shape) # 3
    \/ MeanAxis(t, 1).kind # "some"

\* C3: an embed call whose forward pass succeeds but whose first output is not
\* an f32 array of rank 3, or cannot be pooled along axis 1, returns the
\* OutputShape error to its caller.
C3_OutputShapeError ==
    Ready =>
      \A x \in Texts :
        (/\ done[x] > 0
         /\ ForwardOf(x).kind = "ok"
         /\ BadOutput(ForwardOf(x).val[1]))
        => seen[x] = {Err("OutputShape")}

\* C4: every step of every embed call, failing ones included, leaves the
\* engine ready, its model bytes, tokenizer and session unchanged, and the
\* process able to make the next call.
C4_EngineSurvivesFailure ==
    [][(\E t \in Threads : InFlight(t) /\ pc'[t] # pc[t])
         => (alive' /\ phase' = "ready" /\ engine' = engine)]_vars

\* Every call begun so far has a text on which a sequential embed succeeds.
AllValid ==
    \A x \in Texts :
      (done[x] > 0 \/ \E t \in Threads : InFlight(t) /\ local[t].text = x)
      => SequentialResult[tokenizer][session][x].kind = "ok"

\* C5: concurrent embed calls on one ready engine each end in the result of a
\* sequential embed call with the same text; when every call's text is one a
\* sequential call succeeds on, none panics and the process lives on.
C5_ConcurrentAsSequential ==
    Ready =>
      /\ \A x \in Texts : seen[x] \subseteq {SequentialResult[tokenizer][session][x]}
      /\ AllValid => (alive /\ \A t \in Threads : pc[t] # "panicked")

\* Two callers are inside embed with different texts, past the forward pass,
\* and a call has already returned an embedding.
C5_Witness ==
    /\ Ready
    /\ \E t, u \in Threads :
         /\ pc[t] = "pool" /\ pc[u] = "extract"
         /\ local[t].text # local[u].text
    /\ \E x \in Texts : OkResults(x) # {}

\* C6: all embed calls with the same text on one engine end in the same result.
C6_Deterministic == \A x \in Texts : Cardinality(seen[x]) <= 1

\* One text has been embedded twice and another text once, all successfully.
C6_Witness ==
    \E x, y \in Texts :
      /\ x # y
      /\ done[x] >= 2 /\ OkResults(x) # {}
      /\ done[y] >= 1 /\ OkResults(y) # {}

\* C7 as stated: on the graph whose output is the vector v at every position,
\* embed returns exactly v.
C7_ConstantExactly ==
    (Ready /\ session.graph.kind = "const") =>
      \A x \in Texts : \A r \in OkResults(x) : r.val = ConstVector

RECURSIVE ColumnSum(_, _, _)
\* f32 sum of component j over positions 1..i of a (1, L, H) tensor, in order.
ColumnSum(t, j, i) ==
    IF i = 0 THEN F32Zero
    ELSE F32Add(ColumnSum(t, j, i - 1), t.data[(i - 1) * t.shape[3] + j])

\* The integer n is a finite f32.
Representable(n) ==
    LET f == F32Of(n, 0) IN IF f.e > 0 THEN f.m * Pow2(f.e) = n ELSE TRUE

\* r is within half a unit in its last place of s / n.
NearestQuotient(r, s, n) ==
    IF s.m = 0 THEN r = F32Zero
    ELSE /\ r.m # 0
         /\ r.e <= s.e
         /\ 2 * Abs(n * r.m - s.m * Pow2(s.e - r.e)) <= n

\* C7 amended: component j of the result is the f32 nearest to S / L, S being
\* the f32 sum of component j over all L positions whatever their mask; where
\* every multiple k * v (k <= L) of a constant output v is a finite f32, the
\* result is exactly v.
C7_MeanPooling ==
    (Ready /\ Conforming) =>
      \A x \in Texts : \A r \in OkResults(x) :
        LET t == ForwardOf(x).val[1]
            L == t.shape[2]
        IN  /\ Len(r.val) = Hidden
            /\ \A j \in 1..Hidden :
                 /\ NearestQuotient(r.val[j], ColumnSum(t, j, L), L)
                 /\ (/\ session.graph.kind = "const"
                     /\ \A k \in 1..L : Representable(k * Abs(ConstVector[j].m)))
                    => r.val[j] = ConstVector[j]

\* An embedding was returned for a sequence of three or more positions, some
\* of them padding (mask 0) whose output differs from that of the real tokens.
C7_Witness ==
    /\ Ready /\ session.graph.kind = "embed"
    /\ \E x \in Texts :
         /\ OkResults(x) # {}
         /\ ForwardOf(x).val[1].shape[2] >= 3
         /\ \E i \in 1..Len(Encode(tokenizer, x).val.attention_mask) :
              Encode(tokenizer, x).val.attention_mask[i] = 0

\* C8: on a graph whose output is (1, L, H), every embedding returned has
\* length H, whatever the text and its token count L.
C8_LengthIsHidden ==
    (Ready /\ Conforming) =>
      \A x \in Texts : \A r \in OkResults(x) : Len(r.val) = Hidden

\* The empty text and a longer one were both embedded, at token counts that
\* differ from each other and from H.
C8_Witness ==
    /\ Ready /\ Conforming
    /\ OkResults(<<>>) # {}
    /\ \E x \in Texts :
         /\ OkResults(x) # {}
         /\ Len(Encode(tokenizer, x).val.ids) # Len(Encode(tokenizer, <<>>).val.ids)
         /\ Len(Encode(tokenizer, x).val.ids) # Hidden

\* C9 as stated: initialize with malformed tokenizer bytes returns the
\* TokenizerLoad error.
C9_AlwaysTokenizerLoad ==
    (InitFailed /\ args.tokenizer_data.kind = "malformed")
    => initResult = Err("TokenizerLoad")

\* C9 amended: with malformed tokenizer bytes, initialize never builds a
\* session nor hands out an engine, and it returns the TokenizerLoad error
\* unless building the execution environment, which comes first, has failed.
C9_TokenizerLoadError ==
    (args # None /\ args.tokenizer_data.kind = "malformed") =>
      /\ session = None /\ model = None /\ tokenizer = None
      /\ phase \in {"environment", "threads", "tokenizer", "failed"}
      /\ InitFailed => initResult \in {Err("TokenizerLoad"), Err("Environment")}
      /\ (InitFailed /\ initResult # Err("Environment")) => initResult = Err("TokenizerLoad")

\* initialize failed on malformed tokenizer bytes, the model bytes being valid.
C9_Witness ==
    /\ InitFailed
    /\ args.tokenizer_data.kind = "malformed"
    /\ args.model.kind = "onnx"
    /\ initResult = Err("TokenizerLoad")

\* C10: whenever the compiled session exists, the model bytes it was built
\* from are still allocated.
C10_SessionWithinBytes == session # None => modelBuf = "live"

====
